---------------------------- MODULE Spec2Model ----------------------------
(***************************************************************************)
(* Model of the one-step sulfonamide pipeline:                             *)
(*   - plate_assign_96, enumerate_one_step, load_reagents_csv,             *)
(*     write_outputs and main of scripts/one-step-sulfonamide-enum96.py,   *)
(*   - parse_protocol and main of tools/opentrons_extract_destination_map, *)
(*   - main of tools/merge_authoritative_plate_map.                        *)
(* Strings that the code takes apart or builds (well labels) are sequences *)
(* of one-character strings; identifiers that are only compared are        *)
(* strings.                                                                *)
(***************************************************************************)
EXTENDS Integers, Sequences, FiniteSets, TLC

VARIABLES
    \* plate_assign_96
    n, i, plate, recs, pa_pc,
    \* enumerate_one_step
    sulfonyls, amines, si, ai, pid, yielded, en_pc,
    \* one-step-sulfonamide-enum96: main, load_reagents_csv, write_outputs
    s_csv, a_csv, strict_ids, products, plate_map, en_ret,
    \* opentrons_extract_destination_map: parse_protocol and main
    tree, run_node, reagent_vars, source_well_map, dest_lists, transfers,
    dest_map, dest_rows, source_rows, files, an_exc, an_pc,
    \* merge_authoritative_plate_map: main
    df_dest, df_prod, dfm, qc, mg_files, mg_exc, mg_ret, mg_pc

pa_vars == <<n, i, plate, recs, pa_pc>>

main_vars == <<s_csv, a_csv, strict_ids, products, plate_map, en_ret>>

en_vars == <<sulfonyls, amines, si, ai, pid, yielded, en_pc, main_vars>>

an_vars == <<tree, run_node, reagent_vars, source_well_map, dest_lists,
             transfers, dest_map, dest_rows, source_rows, files, an_exc, an_pc>>

mg_vars == <<df_dest, df_prod, dfm, qc, mg_files, mg_exc, mg_ret, mg_pc>>

vars == <<pa_vars, en_vars, an_vars, mg_vars>>

(***************************************************************************)
(* Generic helpers                                                         *)
(***************************************************************************)
Digits == <<"0", "1", "2", "3", "4", "5", "6", "7", "8", "9">>

\* str(n) / f"{n}" for n >= 0: decimal digits, no padding
RECURSIVE IntToStr(_)
IntToStr(k) ==
    IF k < 10 THEN <<Digits[k + 1]>>
    ELSE IntToStr(k \div 10) \o <<Digits[(k % 10) + 1]>>

\* int(s) of a digit string; the callers check that s is one
RECURSIVE StrToInt(_)
StrToInt(s) ==
    IF s = <<>> THEN 0
    ELSE StrToInt(SubSeq(s, 1, Len(s) - 1)) * 10
         + (CHOOSE d \in 0..9 : Digits[d + 1] = s[Len(s)])

IsDigit(c) == \E d \in 1..10 : Digits[d] = c

AllDigits(s) == s # <<>> /\ \A k \in 1..Len(s) : IsDigit(s[k])

Lowers == <<"a", "b", "c", "d", "e", "f", "g", "h", "i", "j", "k", "l", "m", "n", "o", "p", "q", "r", "s", "t", "u", "v", "w", "x", "y", "z">>

Uppers == <<"A", "B", "C", "D", "E", "F", "G", "H", "I", "J", "K", "L", "M", "N", "O", "P", "Q", "R", "S", "T", "U", "V", "W", "X", "Y", "Z">>

\* str.upper() / str.lower() of one character
Upper(c) == IF \E k \in 1..26 : Lowers[k] = c
            THEN Uppers[CHOOSE k \in 1..26 : Lowers[k] = c] ELSE c

Lower(c) == IF \E k \in 1..26 : Uppers[k] = c
            THEN Lowers[CHOOSE k \in 1..26 : Uppers[k] = c] ELSE c

\* A Python dict: the (key, value) pairs in insertion order
DictHas(d, key) == \E k \in 1..Len(d) : d[k].key = key

DictGet(d, key) == d[CHOOSE k \in 1..Len(d) : d[k].key = key].val

\* d[key] = val: a present key keeps its place
DictPut(d, key, val) ==
    IF DictHas(d, key)
    THEN [k \in 1..Len(d) |-> IF d[k].key = key THEN [key |-> key, val |-> val]
                                ELSE d[k]]
    ELSE Append(d, [key |-> key, val |-> val])

DictKeys(d) == [k \in 1..Len(d) |-> d[k].key]

\* a for loop over seq that carries acc
RECURSIVE FoldLeft(_, _, _)
FoldLeft(Op(_, _), acc, seq) ==
    IF seq = <<>> THEN acc ELSE FoldLeft(Op, Op(acc, Head(seq)), Tail(seq))

(***************************************************************************)
(* Plate utilities (96-well)                                               *)
(***************************************************************************)
MaxN == 100

row_labels_96 == <<"A", "B", "C", "D", "E", "F", "G", "H">>

n_rows == Len(row_labels_96)

n_cols == 12

\* idx = i % (n_rows * n_cols)
WellIdx(k) == k % (n_rows * n_cols)

\* (a slip: the column taken modulo the column count)
WellColByCols(idx) == (idx % n_cols) + 1

\* col = (idx // n_rows) + 1
WellCol(idx) == (idx \div n_rows) + 1

\* r = idx % n_rows
WellRowIndex(idx) == idx % n_rows

\* well = f"{row}{col}"
WellLabel(row, col) == <<row>> \o IntToStr(col)

\* (a slip: the plate advanced one index early)
NextPlateOffByOne(p, k) == IF k % (n_rows * n_cols) = 0 THEN p + 1 ELSE p

\* if (i + 1) % (n_rows * n_cols) == 0: plate += 1
NextPlate(p, k) == IF (k + 1) % (n_rows * n_cols) = 0 THEN p + 1 ELSE p

PlateRecord(p, k) ==
    LET idx == WellIdx(k)
        col == WellCol(idx)
        row == row_labels_96[WellRowIndex(idx) + 1]
    IN  [Plate |-> p, Row |-> row, Col |-> col, Well |-> WellLabel(row, col)]

PlateIdle ==
    /\ n = 0
    /\ i = 0
    /\ plate = 1
    /\ recs = <<>>
    /\ pa_pc = "idle"

PlateStart ==
    /\ n \in 0..MaxN
    /\ i = 0
    /\ plate = 1
    /\ recs = <<>>
    /\ pa_pc = "loop"

\* one iteration of `for i in range(n)`
PlateStep ==
    /\ pa_pc = "loop"
    /\ i < n
    /\ recs' = Append(recs, PlateRecord(plate, i))
    /\ plate' = NextPlate(plate, i)
    /\ i' = i + 1
    /\ UNCHANGED <<n, pa_pc, en_vars, an_vars, mg_vars>>

\* return recs
PlateReturn ==
    /\ pa_pc = "loop"
    /\ i = n
    /\ pa_pc' = "done"
    /\ UNCHANGED <<n, i, plate, recs, en_vars, an_vars, mg_vars>>

PlateNext == PlateStep \/ PlateReturn

(***************************************************************************)
(* Enumeration                                                             *)
(***************************************************************************)
MaxReagents == 2

\* Reagent structures the model draws from.  Chem.MolFromSmiles returns None
\* for the unparsable one (an unclosed ring).
S_REACTIVE == "CS(=O)(=O)Cl"
S_INERT == "CCO"
A_PRIMARY == "CN"
A_TERTIARY == "CN(C)C"
A_MIXED == "CN(C)CCN"
A_DIAMINE == "NCCNC"
UNPARSABLE == "C1CC"

SulfonylSmiles == {S_REACTIVE, S_INERT, UNPARSABLE}

AmineSmiles == {A_PRIMARY, A_TERTIARY, A_MIXED, A_DIAMINE, UNPARSABLE}

None == [isNone |-> TRUE, smiles |-> ""]

\* Chem.MolFromSmiles
MolFromSmiles(smi) ==
    IF smi = UNPARSABLE THEN None ELSE [isNone |-> FALSE, smiles |-> smi]

\* rxn.RunReactants(reactants): raises on a None reactant (argument type
\* mismatch); otherwise the candidate product sets in the oracle's order.
\* RXN_SULFONAMIDE maps any N: a tertiary N gives a candidate that fails
\* sanitization (valence), a molecule with two N gives two product sets, in
\* the order of the N atoms in the molecule.
RunReactants(s_mol, a_mol) ==
    IF s_mol.isNone \/ a_mol.isNone THEN [raised |-> TRUE, sets |-> <<>>]
    ELSE IF s_mol.smiles # S_REACTIVE THEN [raised |-> FALSE, sets |-> <<>>]
    ELSE IF a_mol.smiles = A_PRIMARY THEN
        [raised |-> FALSE,
         sets |-> << <<[smi |-> "CNS(C)(=O)=O", sane |-> TRUE]>> >>]
    ELSE IF a_mol.smiles = A_TERTIARY THEN
        [raised |-> FALSE,
         sets |-> << <<[smi |-> "CN(C)(C)S(C)(=O)=O", sane |-> FALSE]>> >>]
    ELSE IF a_mol.smiles = A_DIAMINE THEN
        [raised |-> FALSE,
         sets |-> << <<[smi |-> "CNCCNS(C)(=O)=O", sane |-> TRUE]>>,
                     <<[smi |-> "CN(CCN)S(C)(=O)=O", sane |-> TRUE]>> >>]
    ELSE
        [raised |-> FALSE,
         sets |-> << <<[smi |-> "CN(C)(CCN)S(C)(=O)=O", sane |-> FALSE]>>,
                     <<[smi |-> "CN(C)CCNS(C)(=O)=O", sane |-> TRUE]>> >>]

\* for pset in out_sets: for p in pset: (the candidates in iteration order)
RECURSIVE Candidates(_)
Candidates(sets) ==
    IF sets = <<>> THEN <<>> ELSE Head(sets) \o Candidates(Tail(sets))

\* (a slip: the last candidate that passes is kept)
RECURSIVE LastSane(_)
LastSane(cands) ==
    IF cands = <<>> THEN ""
    ELSE IF LastSane(Tail(cands)) # "" THEN LastSane(Tail(cands))
    ELSE IF Head(cands).sane THEN Head(cands).smi
    ELSE ""

\* first candidate that passes Chem.SanitizeMol, as SMILES; "" stands for None
RECURSIVE FirstSane(_)
FirstSane(cands) ==
    IF cands = <<>> THEN ""
    ELSE IF Head(cands).sane THEN Head(cands).smi
    ELSE FirstSane(Tail(cands))

first_sanitized_product_smiles(s_mol, a_mol) ==
    LET r == RunReactants(s_mol, a_mol)
    IN  IF r.raised THEN "" ELSE FirstSane(Candidates(r.sets))

\* Chem.CombineMols(s_mol, a_mol): raises on a None argument (it is not in
\* the try block); MolToSmiles of the combination is the two fragments
CombineMols(s_mol, a_mol) ==
    IF s_mol.isNone \/ a_mol.isNone
    THEN [raised |-> TRUE, smiles |-> ""]
    ELSE [raised |-> FALSE, smiles |-> s_mol.smiles \o "." \o a_mol.smiles]

best_effort_product(s_mol, a_mol) ==
    LET smi == first_sanitized_product_smiles(s_mol, a_mol)
        combo == CombineMols(s_mol, a_mol)
    IN  IF smi # "" THEN [raised |-> FALSE, smiles |-> smi, status |-> "OK_REACTION"]
        ELSE IF combo.raised THEN [raised |-> TRUE, smiles |-> "", status |-> ""]
        ELSE [raised |-> FALSE, smiles |-> combo.smiles,
              status |-> "FALLBACK_COMBINEMOLS"]

\* zero-padded three digits, f"{n:03d}"
Pad3(k) ==
    IF k < 10 THEN "00" \o ToString(k)
    ELSE IF k < 100 THEN "0" \o ToString(k)
    ELSE ToString(k)

\* a reagent CSV: the header of its ID column ("" when it has none) and its
\* rows (SMILES cell, ID cell)
NoCsv == [id_header |-> "", rows |-> <<>>]

\* Reagent(smiles, rid, name); the ids are those of the input's ID column
ReagentList(prefix, smis) ==
    [k \in 1..Len(smis) |-> [smiles |-> smis[k], rid |-> prefix \o Pad3(k)]]

\* main is not running: nothing read, nothing written
MainIdle ==
    /\ s_csv = NoCsv
    /\ a_csv = NoCsv
    /\ strict_ids = FALSE
    /\ products = <<>>
    /\ plate_map = <<>>
    /\ en_ret = -1

EnumIdle ==
    /\ sulfonyls = <<>>
    /\ amines = <<>>
    /\ si = 1
    /\ ai = 1
    /\ pid = 0
    /\ yielded = <<>>
    /\ en_pc = "idle"
    /\ MainIdle

EnumStart ==
    /\ \E ns \in 0..MaxReagents : \E l \in [1..ns -> SulfonylSmiles] :
         sulfonyls = ReagentList("S_", l)
    /\ \E na \in 0..MaxReagents : \E l \in [1..na -> AmineSmiles] :
         amines = ReagentList("Amine_ID_", l)
    /\ si = 1
    /\ ai = 1
    /\ pid = 0
    /\ yielded = <<>>
    /\ en_pc = "run"
    /\ MainIdle

\* one pass of the inner loop body: the next tuple, or the exception that
\* leaves the generator
EnumPair ==
    /\ en_pc = "run"
    /\ si <= Len(sulfonyls)
    /\ ai <= Len(amines)
    /\ LET s == sulfonyls[si]
           a == amines[ai]
           p == best_effort_product(MolFromSmiles(s.smiles), MolFromSmiles(a.smiles))
       IN  IF p.raised
           THEN /\ en_pc' = "raised"
                /\ UNCHANGED <<si, ai, pid, yielded>>
           ELSE /\ yielded' = Append(yielded,
                        [ProductID |-> pid, s |-> s, a |-> a,
                         smiles |-> p.smiles, status |-> p.status])
                /\ pid' = pid + 1
                /\ IF ai < Len(amines)
                   THEN ai' = ai + 1 /\ si' = si
                   ELSE ai' = 1 /\ si' = si + 1
                /\ en_pc' = en_pc
    /\ UNCHANGED <<sulfonyls, amines, main_vars, pa_vars, an_vars, mg_vars>>

\* both loops are exhausted
EnumReturn ==
    /\ en_pc = "run"
    /\ (si > Len(sulfonyls) \/ Len(amines) = 0)
    /\ en_pc' = "done"
    /\ UNCHANGED <<sulfonyls, amines, si, ai, pid, yielded, main_vars,
                   pa_vars, an_vars, mg_vars>>

EnumNext == EnumPair \/ EnumReturn

(***************************************************************************)
(* The enumerator's main: read the reagent CSVs, enumerate, write          *)
(***************************************************************************)
\* a second spelling of methylamine; Chem.MolToSmiles writes the canonical one
A_PRIMARY_ALT == "NC"

MolToSmiles(mol) == IF mol.smiles = A_PRIMARY_ALT THEN A_PRIMARY ELSE mol.smiles

CsvSulfonylSmiles == {S_REACTIVE, S_INERT, UNPARSABLE}

CsvAmineSmiles == {A_PRIMARY_ALT, A_TERTIARY, A_DIAMINE, UNPARSABLE}

\* zero-padded six digits, f"{i:06d}"
Pad6(k) ==
    IF k < 10 THEN "00000" \o ToString(k)
    ELSE IF k < 100 THEN "0000" \o ToString(k)
    ELSE "000" \o ToString(k)

\* the ID column a file has: the preferred one, the generic "id", or none
IdModes == {"preferred", "id", "none"}

\* a reagent file whose ID cells follow the convention of the merge keys:
\* the prefix and the 1-based row number in three digits
ReagentCsv(mode, preferred_id_col, id_prefix, smis) ==
    [id_header |-> IF mode = "preferred" THEN preferred_id_col
                   ELSE IF mode = "id" THEN "id" ELSE "",
     rows |-> [k \in 1..Len(smis) |->
                  [smiles |-> smis[k],
                   id |-> IF mode = "none" THEN "" ELSE id_prefix \o Pad3(k)]]]

\* load_reagents_csv: [raised, reagents].  Rows whose SMILES does not parse
\* are skipped; i is the row's index in the file, from 0.
load_reagents_csv(csv, preferred_id_col, default_prefix, strict) ==
    LET use_col == \/ csv.id_header = preferred_id_col
                   \/ csv.id_header = "id" /\ ~strict
        Row(acc, k) ==
            LET row == csv.rows[k]
                mol == MolFromSmiles(row.smiles)
            IN  IF mol.isNone THEN acc
                ELSE Append(acc,
                        [smiles |-> MolToSmiles(mol),
                         rid |-> IF use_col THEN row.id
                                 ELSE default_prefix \o Pad6(k - 1)])
    IN  IF ~use_col /\ strict
        THEN [raised |-> TRUE, reagents |-> <<>>]
        ELSE [raised |-> FALSE,
              reagents |-> FoldLeft(Row, <<>>, [k \in 1..Len(csv.rows) |-> k])]

\* plate_assign_96(n) as a value.  The plate at index k: it starts at 1 and
\* has been advanced once in each earlier iteration that advances it
PlateAt(k) == 1 + Cardinality({j \in 0..(k - 1) : NextPlate(1, j) # 1})

plate_assign_96(cnt) == [k \in 1..cnt |-> PlateRecord(PlateAt(k - 1), k - 1)]

\* (a slip: only the products of a successful reaction get a position)
write_outputs_reacted(prods) ==
    LET ok == SelectSeq(prods, LAMBDA r : r.Status = "OK_REACTION")
        pm == plate_assign_96(Len(ok))
    IN  [k \in 1..Len(ok) |->
            [Plate |-> pm[k].Plate, Row |-> pm[k].Row, Col |-> pm[k].Col,
             Well |-> pm[k].Well, ProductID |-> ok[k].ProductID,
             ProductSMILES |-> ok[k].SMILES, S_ID |-> ok[k].S_ID,
             Amine_ID |-> ok[k].Amine_ID]]

\* write_outputs, the plate map: the records of plate_assign_96(len(products))
\* with the products' columns attached by position
write_outputs(prods) ==
    LET pm == plate_assign_96(Len(prods))
    IN  [k \in 1..Len(prods) |->
            [Plate |-> pm[k].Plate, Row |-> pm[k].Row, Col |-> pm[k].Col,
             Well |-> pm[k].Well, ProductID |-> prods[k].ProductID,
             ProductSMILES |-> prods[k].SMILES, S_ID |-> prods[k].S_ID,
             Amine_ID |-> prods[k].Amine_ID]]

\* the side of a library that fills more than one plate
LibSide == 10

\* the files main reads: short ones of every kind, or LibSide sulfonyl
\* chlorides and LibSide amines, every second amine tertiary
MainStart ==
    /\ \/ /\ \E mode \in IdModes, ns \in 0..MaxReagents :
                \E l \in [1..ns -> CsvSulfonylSmiles] :
                   s_csv = ReagentCsv(mode, "S_ID", "S_", l)
          /\ \E mode \in IdModes, na \in 0..MaxReagents :
                \E l \in [1..na -> CsvAmineSmiles] :
                   a_csv = ReagentCsv(mode, "Amine_ID", "Amine_ID_", l)
       \/ /\ s_csv = ReagentCsv("preferred", "S_ID", "S_",
                                 [k \in 1..LibSide |-> S_REACTIVE])
          /\ a_csv = ReagentCsv("preferred", "Amine_ID", "Amine_ID_",
                                 [k \in 1..LibSide |->
                                     IF k % 2 = 0 THEN A_TERTIARY ELSE A_PRIMARY_ALT])
    /\ strict_ids \in BOOLEAN
    /\ products = <<>>
    /\ plate_map = <<>>
    /\ en_ret = -1
    /\ sulfonyls = <<>>
    /\ amines = <<>>
    /\ si = 1
    /\ ai = 1
    /\ pid = 0
    /\ yielded = <<>>
    /\ en_pc = "load"

\* main, lines 313-321: both files are read; an empty list ends main with 2
MainLoad ==
    /\ en_pc = "load"
    /\ LET s == load_reagents_csv(s_csv, "S_ID", "S_", strict_ids)
           a == load_reagents_csv(a_csv, "Amine_ID", "A_", strict_ids)
       IN  IF s.raised
           THEN /\ en_pc' = "raised"
                /\ UNCHANGED <<sulfonyls, amines, en_ret>>
           ELSE IF a.raised
           THEN /\ sulfonyls' = s.reagents
                /\ en_pc' = "raised"
                /\ UNCHANGED <<amines, en_ret>>
           ELSE /\ sulfonyls' = s.reagents
                /\ amines' = a.reagents
                /\ IF s.reagents = <<>> \/ a.reagents = <<>>
                   THEN en_ret' = 2 /\ en_pc' = "done"
                   ELSE en_ret' = en_ret /\ en_pc' = "loop"
    /\ UNCHANGED <<si, ai, pid, yielded, s_csv, a_csv, strict_ids, products,
                   plate_map, pa_vars, an_vars, mg_vars>>

\* main, lines 323-338: one tuple of the generator and its product record
MainPair ==
    /\ en_pc = "loop"
    /\ si <= Len(sulfonyls)
    /\ ai <= Len(amines)
    /\ LET s == sulfonyls[si]
           a == amines[ai]
           p == best_effort_product(MolFromSmiles(s.smiles), MolFromSmiles(a.smiles))
       IN  IF p.raised
           THEN /\ en_pc' = "raised"
                /\ UNCHANGED <<si, ai, pid, yielded, products>>
           ELSE /\ yielded' = Append(yielded,
                        [ProductID |-> pid, s |-> s, a |-> a,
                         smiles |-> p.smiles, status |-> p.status])
                /\ products' = Append(products,
                        [ProductID |-> pid, S_ID |-> s.rid, Amine_ID |-> a.rid,
                         SMILES |-> p.smiles, Status |-> p.status])
                /\ pid' = pid + 1
                /\ IF ai < Len(amines)
                   THEN ai' = ai + 1 /\ si' = si
                   ELSE ai' = 1 /\ si' = si + 1
                /\ en_pc' = en_pc
    /\ UNCHANGED <<sulfonyls, amines, s_csv, a_csv, strict_ids, plate_map, en_ret,
                   pa_vars, an_vars, mg_vars>>

\* main, lines 340-347: write_outputs, then return 0
MainWriteOutputs ==
    /\ en_pc = "loop"
    /\ si > Len(sulfonyls)
    /\ plate_map' = write_outputs(products)
    /\ en_ret' = 0
    /\ en_pc' = "done"
    /\ UNCHANGED <<sulfonyls, amines, si, ai, pid, yielded, s_csv, a_csv,
                   strict_ids, products, pa_vars, an_vars, mg_vars>>

MainNext == MainLoad \/ MainPair \/ MainWriteOutputs

(***************************************************************************)
(* Protocol analysis: the script as its syntax tree                        *)
(***************************************************************************)
MaxStmts == 3

\* RE_AMINE / RE_SULF: ^<word>\s+(\d+)\s*$ with re.IGNORECASE.  The value is
\* group(1), or <<>> when the name does not match.
AMINE_WORD == <<"A", "m", "i", "n", "e">>

SULF_WORD == <<"S", "u", "l", "f", "o", "n", "y", "l", "C", "l">>

AllSpaces(s) == \A k \in 1..Len(s) : s[k] = " "

ReMatch(word, name) ==
    LET w == Len(word)
        rest == SubSeq(name, w + 1, Len(name))
        Splits == {ab \in (1..Len(rest)) \X (1..Len(rest)) :
                     /\ ab[1] < ab[2]
                     /\ AllSpaces(SubSeq(rest, 1, ab[1]))
                     /\ AllDigits(SubSeq(rest, ab[1] + 1, ab[2]))
                     /\ AllSpaces(SubSeq(rest, ab[2] + 1, Len(rest)))}
    IN  IF /\ Len(name) > w
           /\ \A k \in 1..w : Lower(name[k]) = Lower(word[k])
           /\ Splits # {}
        THEN LET ab == CHOOSE ab \in Splits : TRUE
             IN  SubSeq(rest, ab[1] + 1, ab[2])
        ELSE <<>>

\* The statements of run() that the analyzer looks at.
\*   var = protocol.define_liquid(name=<name>, ...)
Define(var, name) ==
    [kind |-> "define", var |-> var, name |-> name, well |-> <<>>,
     wells |-> <<>>, volume |-> <<>>]

\*   source_plate[<well>].load_liquid(liquid=<var>, volume=<volume>)
Load(well, var, volume) ==
    [kind |-> "load", var |-> var, name |-> <<>>, well |-> well,
     wells |-> <<>>, volume |-> volume]

\*   var = [dest_plate.wells_by_name()[well] for well in <wells>]
DestList(var, wells) ==
    [kind |-> "destlist", var |-> var, name |-> <<>>, well |-> <<>>,
     wells |-> wells, volume |-> <<>>]

\*   left_pipette.transfer(vol, source_plate[<well>], <var>, ...)
TransferTo(well, var) ==
    [kind |-> "transfer", var |-> var, name |-> <<>>, well |-> well,
     wells |-> <<>>, volume |-> <<>>]

\*   left_pipette.transfer(vol, source_plate[<well>], [<wells>], ...)
TransferLit(well, wells) ==
    [kind |-> "transfer_lit", var |-> <<>>, name |-> <<>>, well |-> well,
     wells |-> wells, volume |-> <<>>]

IsTransfer(st) == st.kind \in {"transfer", "transfer_lit"}

\* (a slip: the name of the function is not compared)
FindRunAnyName(body) ==
    LET hits == {k \in 1..Len(body) : body[k].type = "FunctionDef"}
    IN  IF hits = {} THEN 0 ELSE CHOOSE k \in hits : \A j \in hits : k <= j

\* the first top-level FunctionDef named run: its index in tree.body, or 0
FindRun(body) ==
    LET hits == {k \in 1..Len(body) :
                   body[k].type = "FunctionDef" /\ body[k].name = <<"r", "u", "n">>}
    IN  IF hits = {} THEN 0 ELSE CHOOSE k \in hits : \A j \in hits : k <= j

\* 1) reagent variables -> (class, num, name)
BindingStmt(rv, st) ==
    IF st.kind # "define" \/ st.name = <<>> THEN rv
    ELSE LET mA == ReMatch(AMINE_WORD, st.name)
             mS == ReMatch(SULF_WORD, st.name)
         IN  IF mA # <<>>
             THEN DictPut(rv, st.var, [class |-> "amine", num |-> StrToInt(mA),
                                       name |-> st.name])
             ELSE IF mS # <<>>
             THEN DictPut(rv, st.var, [class |-> "sulfonyl", num |-> StrToInt(mS),
                                       name |-> st.name])
             ELSE rv

ReagentVars(body) == FoldLeft(BindingStmt, <<>>, body)

\* 2) source well -> reagent var
LoadStmt(swm, st) ==
    IF st.kind # "load" \/ st.well = <<>> \/ st.var = <<>> THEN swm
    ELSE DictPut(swm, st.well, [liquid_var |-> st.var, volume |-> st.volume])

SourceWellMap(body) == FoldLeft(LoadStmt, <<>>, body)

\* 3) list vars
DestListStmt(dl, st) ==
    LET wells == SelectSeq(st.wells, LAMBDA s : s # <<>>)
    IN  IF st.kind # "destlist" \/ wells = <<>> THEN dl
        ELSE DictPut(dl, st.var, wells)

DestLists(body) == FoldLeft(DestListStmt, <<>>, body)

\* 4) transfer calls, resolved against the finished dest_lists
TransferStmt(ts, st, dl) ==
    IF ~IsTransfer(st) \/ st.well = <<>> THEN ts
    ELSE LET dest_wells ==
                 IF st.kind = "transfer"
                 THEN IF DictHas(dl, st.var) THEN DictGet(dl, st.var) ELSE <<>>
                 ELSE SelectSeq(st.wells, LAMBDA s : s # <<>>)
         IN  IF dest_wells = <<>> THEN ts
             ELSE Append(ts, [src_well |-> st.well, dest_wells |-> dest_wells])

Transfers(body, dl) ==
    LET Op(ts, st) == TransferStmt(ts, st, dl) IN FoldLeft(Op, <<>>, body)

\* Build destination map.  A cell holds the text written to the CSV: <<>> is
\* the empty string, a number its decimal digits.
NewEntry(dw) ==
    [Well |-> dw, Sulfonyl_chloride_no |-> <<>>, Amine_no |-> <<>>,
     Sulfonyl_source_well |-> <<>>, Amine_source_well |-> <<>>]

\* (a slip: the entry is started afresh at every transfer)
FoldWellFresh(dm, dw, rinfo, src_well) ==
    LET rec == NewEntry(dw)
    IN  DictPut(dm, dw,
            IF rinfo.class = "sulfonyl"
            THEN [rec EXCEPT !.Sulfonyl_chloride_no = IntToStr(rinfo.num),
                             !.Sulfonyl_source_well = src_well]
            ELSE IF rinfo.class = "amine"
            THEN [rec EXCEPT !.Amine_no = IntToStr(rinfo.num),
                             !.Amine_source_well = src_well]
            ELSE rec)

FoldWell(dm, dw, rinfo, src_well) ==
    LET rec == IF DictHas(dm, dw) THEN DictGet(dm, dw) ELSE NewEntry(dw)
    IN  DictPut(dm, dw,
            IF rinfo.class = "sulfonyl"
            THEN [rec EXCEPT !.Sulfonyl_chloride_no = IntToStr(rinfo.num),
                             !.Sulfonyl_source_well = src_well]
            ELSE IF rinfo.class = "amine"
            THEN [rec EXCEPT !.Amine_no = IntToStr(rinfo.num),
                             !.Amine_source_well = src_well]
            ELSE rec)

\* (a slip: the entries are created before the transfer is resolved)
FoldTransferEager(dm, t, swm, rv) ==
    LET Touch(acc, dw) ==
            IF DictHas(acc, dw) THEN acc ELSE DictPut(acc, dw, NewEntry(dw))
        touched == FoldLeft(Touch, dm, t.dest_wells)
    IN  IF ~DictHas(swm, t.src_well) THEN touched
        ELSE LET rvar == DictGet(swm, t.src_well).liquid_var
             IN  IF ~DictHas(rv, rvar) THEN touched
                 ELSE LET rinfo == DictGet(rv, rvar)
                          Op(acc, dw) == FoldWell(acc, dw, rinfo, t.src_well)
                      IN  FoldLeft(Op, dm, t.dest_wells)

FoldTransfer(dm, t, swm, rv) ==
    IF ~DictHas(swm, t.src_well) THEN dm
    ELSE LET rvar == DictGet(swm, t.src_well).liquid_var
         IN  IF ~DictHas(rv, rvar) THEN dm
             ELSE LET rinfo == DictGet(rv, rvar)
                      Op(acc, dw) == FoldWell(acc, dw, rinfo, t.src_well)
                  IN  FoldLeft(Op, dm, t.dest_wells)

DestMap(ts, swm, rv) ==
    LET Op(dm, t) == FoldTransfer(dm, t, swm, rv) IN FoldLeft(Op, <<>>, ts)

\* source layout (optional)
SourceRow(e, rv) ==
    LET known == DictHas(rv, e.val.liquid_var)
        rinfo == DictGet(rv, e.val.liquid_var)
    IN  [SourceWell |-> e.key,
         ReagentClass |-> IF known THEN rinfo.class ELSE "unknown",
         ReagentNumber |-> IF known THEN IntToStr(rinfo.num) ELSE <<>>,
         ReagentName |-> IF known THEN rinfo.name ELSE e.val.liquid_var,
         Volume_uL |-> e.val.volume]

SourceRows(swm, rv) == [k \in 1..Len(swm) |-> SourceRow(swm[k], rv)]

\* _well_sort_key: (col, row_order); int() or str.index raise ValueError
WellKeyRaises(w) ==
    \/ ~AllDigits(Tail(w))
    \/ ~\E r \in 1..Len(row_labels_96) : row_labels_96[r] = Upper(w[1])

WellCol_of(w) == StrToInt(Tail(w))

WellRowOrder(w) ==
    (CHOOSE r \in 1..Len(row_labels_96) : row_labels_96[r] = Upper(w[1])) - 1

KeyLess(v, w) ==
    \/ WellCol_of(v) < WellCol_of(w)
    \/ WellCol_of(v) = WellCol_of(w) /\ WellRowOrder(v) < WellRowOrder(w)

\* sorted(keys, key=_well_sort_key): stable
RECURSIVE InsertSorted(_, _)
InsertSorted(sorted, w) ==
    IF sorted = <<>> THEN <<w>>
    ELSE IF KeyLess(w, Head(sorted)) THEN <<w>> \o sorted
    ELSE <<Head(sorted)>> \o InsertSorted(Tail(sorted), w)

SortedWells(keys) == FoldLeft(InsertSorted, <<>>, keys)

SortRaises(dm) == \E k \in 1..Len(dm) : WellKeyRaises(dm[k].key)

DestRows(dm) ==
    LET ws == SortedWells(DictKeys(dm))
    IN  [k \in 1..Len(ws) |-> DictGet(dm, ws[k])]

\* parse_protocol as a function of the tree: what it returns or raises
ParseProtocol(t) ==
    LET r == FindRun(t)
        body == t[r].body
        rv == ReagentVars(body)
        swm == SourceWellMap(body)
        dm == DestMap(Transfers(body, DestLists(body)), swm, rv)
    IN  IF r = 0 \/ SortRaises(dm)
        THEN [exc |-> "ValueError", dest_rows |-> <<>>, source_rows |-> <<>>]
        ELSE [exc |-> "", dest_rows |-> DestRows(dm),
              source_rows |-> SourceRows(swm, rv)]

\* ---- the scripts the model draws from ----
V_S1 == <<"s", "u", "l", "f", "o", "n", "y", "l", "_", "1">>
V_A1 == <<"a", "m", "i", "n", "e", "_", "2">>
V_X == <<"b", "u", "f", "f", "e", "r">>
V_D == <<"d", "e", "s", "t">>

W_A1 == <<"A", "1">>
W_B1 == <<"B", "1">>
W_C1 == <<"C", "1">>
W_A2 == <<"A", "2">>
W_I1 == <<"I", "1">>

VOL == <<"5", "0">>

\* liquids defined and loaded and a destination list assigned as in the
\* shipped protocol, plus one liquid whose display name matches neither
\* pattern
Preamble ==
    << Define(V_S1, <<"S", "u", "l", "f", "o", "n", "y", "l", "C", "l", " ", "1">>),
       Define(V_A1, <<"a", "m", "i", "n", "e", " ", " ", "0", "2", " ">>),
       Define(V_X, <<"B", "u", "f", "f", "e", "r", " ", "3">>),
       Load(W_A2, V_S1, VOL),
       Load(W_A1, V_A1, VOL),
       DestList(V_D, <<W_B1, W_A1>>) >>

Preambles == {Preamble}

\* source wells B1 and C1 are loaded only by the Loads of this set
TailStmts ==
    { Define(V_S1, <<"S", "u", "l", "f", "o", "n", "y", "l", "C", "l", " ", "7">>),
      Load(W_C1, V_S1, VOL),
      Load(W_B1, V_X, VOL),
      DestList(V_D, <<W_A2, W_B1>>),
      TransferTo(W_A2, V_D),
      TransferTo(W_A1, V_D),
      TransferLit(W_B1, <<W_C1>>),
      TransferLit(W_C1, <<W_A2, W_B1>>),
      TransferLit(W_A1, <<W_I1>>) }

FunctionDef(name, body) == [type |-> "FunctionDef", name |-> name, body |-> body]

AsyncFunctionDef(name, body) ==
    [type |-> "AsyncFunctionDef", name |-> name, body |-> body]

Metadata == [type |-> "Assign", name |-> <<"m", "e", "t", "a", "d", "a", "t", "a">>, body |-> <<>>]

\* tree.body: with run, with run under another name, with an async run
Layouts == {"run", "main", "async_run"}

Tree(layout, body) ==
    IF layout = "run" THEN <<Metadata, FunctionDef(<<"r", "u", "n">>, body)>>
    ELSE IF layout = "main" THEN <<Metadata, FunctionDef(<<"m", "a", "i", "n">>, body)>>
    ELSE <<Metadata, AsyncFunctionDef(<<"r", "u", "n">>, body)>>

AnIdle ==
    /\ tree = <<>>
    /\ run_node = <<>>
    /\ reagent_vars = <<>>
    /\ source_well_map = <<>>
    /\ dest_lists = <<>>
    /\ transfers = <<>>
    /\ dest_map = <<>>
    /\ dest_rows = <<>>
    /\ source_rows = <<>>
    /\ files = <<>>
    /\ an_exc = ""
    /\ an_pc = "idle"

AnStart ==
    /\ \E pre \in Preambles, len \in 0..MaxStmts, layout \in Layouts :
         \E tl \in [1..len -> TailStmts] : tree = Tree(layout, pre \o tl)
    /\ run_node = <<>>
    /\ reagent_vars = <<>>
    /\ source_well_map = <<>>
    /\ dest_lists = <<>>
    /\ transfers = <<>>
    /\ dest_map = <<>>
    /\ dest_rows = <<>>
    /\ source_rows = <<>>
    /\ files = <<>>
    /\ an_exc = ""
    /\ an_pc = "find_run"

\* main calls parse_protocol: lines 67-73
ParseFindRun ==
    /\ an_pc = "find_run"
    /\ IF FindRun(tree) = 0
       THEN /\ an_exc' = "ValueError"
            /\ an_pc' = "raised"
            /\ UNCHANGED run_node
       ELSE /\ run_node' = tree[FindRun(tree)].body
            /\ an_pc' = "bindings"
            /\ UNCHANGED an_exc
    /\ UNCHANGED <<tree, reagent_vars, source_well_map, dest_lists, transfers,
                   dest_map, dest_rows, source_rows, files, pa_vars, en_vars, mg_vars>>

ParseBindings ==
    /\ an_pc = "bindings"
    /\ reagent_vars' = ReagentVars(run_node)
    /\ an_pc' = "loads"
    /\ UNCHANGED <<tree, run_node, source_well_map, dest_lists, transfers,
                   dest_map, dest_rows, source_rows, files, an_exc,
                   pa_vars, en_vars, mg_vars>>

ParseLoads ==
    /\ an_pc = "loads"
    /\ source_well_map' = SourceWellMap(run_node)
    /\ an_pc' = "lists"
    /\ UNCHANGED <<tree, run_node, reagent_vars, dest_lists, transfers,
                   dest_map, dest_rows, source_rows, files, an_exc,
                   pa_vars, en_vars, mg_vars>>

ParseDestLists ==
    /\ an_pc = "lists"
    /\ dest_lists' = DestLists(run_node)
    /\ an_pc' = "transfers"
    /\ UNCHANGED <<tree, run_node, reagent_vars, source_well_map, transfers,
                   dest_map, dest_rows, source_rows, files, an_exc,
                   pa_vars, en_vars, mg_vars>>

ParseTransfers ==
    /\ an_pc = "transfers"
    /\ transfers' = Transfers(run_node, dest_lists)
    /\ an_pc' = "fold"
    /\ UNCHANGED <<tree, run_node, reagent_vars, source_well_map, dest_lists,
                   dest_map, dest_rows, source_rows, files, an_exc,
                   pa_vars, en_vars, mg_vars>>

ParseFold ==
    /\ an_pc = "fold"
    /\ dest_map' = DestMap(transfers, source_well_map, reagent_vars)
    /\ an_pc' = "rows"
    /\ UNCHANGED <<tree, run_node, reagent_vars, source_well_map, dest_lists,
                   transfers, dest_rows, source_rows, files, an_exc,
                   pa_vars, en_vars, mg_vars>>

\* source rows, then the sorted destination rows, then return
ParseRows ==
    /\ an_pc = "rows"
    /\ source_rows' = SourceRows(source_well_map, reagent_vars)
    /\ IF SortRaises(dest_map)
       THEN /\ an_exc' = "ValueError"
            /\ an_pc' = "raised"
            /\ UNCHANGED dest_rows
       ELSE /\ dest_rows' = DestRows(dest_map)
            /\ an_pc' = "write"
            /\ UNCHANGED an_exc
    /\ UNCHANGED <<tree, run_node, reagent_vars, source_well_map, dest_lists,
                   transfers, dest_map, files, pa_vars, en_vars, mg_vars>>

\* main after parse_protocol returned: write_csv of the destination rows and,
\* with --out-source, of the source rows
MainWrite ==
    /\ an_pc = "write"
    /\ \E out_source \in BOOLEAN :
         files' = <<[path |-> "out_dest", rows |-> dest_rows]>>
                  \o (IF out_source
                      THEN <<[path |-> "out_source", rows |-> source_rows]>>
                      ELSE <<>>)
    /\ an_pc' = "done"
    /\ UNCHANGED <<tree, run_node, reagent_vars, source_well_map, dest_lists,
                   transfers, dest_map, dest_rows, source_rows, an_exc,
                   pa_vars, en_vars, mg_vars>>

AnNext ==
    \/ ParseFindRun
    \/ ParseBindings
    \/ ParseLoads
    \/ ParseDestLists
    \/ ParseTransfers
    \/ ParseFold
    \/ ParseRows
    \/ MainWrite

(***************************************************************************)
(* Reconciliation: merge of the destination map with the product table     *)
(***************************************************************************)
MaxProducts == 3

\* f"S_{n:03d}" and f"Amine_ID_{n:03d}"
s_id(k) == "S_" \o Pad3(k)

amine_id(k) == "Amine_ID_" \o Pad3(k)

\* pandas' missing value in a merged row
NaN == "NaN"

\* pd.read_csv then astype(int): an empty cell is NaN and cannot be cast
CastRaises(rows) ==
    \E k \in 1..Len(rows) :
        rows[k].Sulfonyl_chloride_no = <<>> \/ rows[k].Amine_no = <<>>

\* Normalize OT indices -> enum IDs
WithIds(row) ==
    [Well |-> row.Well,
     Sulfonyl_chloride_no |-> row.Sulfonyl_chloride_no,
     Amine_no |-> row.Amine_no,
     Sulfonyl_source_well |-> row.Sulfonyl_source_well,
     Amine_source_well |-> row.Amine_source_well,
     S_ID |-> s_id(StrToInt(row.Sulfonyl_chloride_no)),
     Amine_ID |-> amine_id(StrToInt(row.Amine_no))]

Joined(d, ProductID, SMILES, Status) ==
    [Well |-> d.Well,
     Sulfonyl_chloride_no |-> d.Sulfonyl_chloride_no,
     Amine_no |-> d.Amine_no,
     Sulfonyl_source_well |-> d.Sulfonyl_source_well,
     Amine_source_well |-> d.Amine_source_well,
     S_ID |-> d.S_ID, Amine_ID |-> d.Amine_ID,
     ProductID |-> ProductID, SMILES |-> SMILES, Status |-> Status]

\* df_dest.merge(df_prod[keep_cols_prod], on=["S_ID", "Amine_ID"], how="left"):
\* the rows of one left row, one per matching right row in the right's order,
\* or a single row of missing values
MergeRow(d, prod) ==
    LET hits == SelectSeq(prod, LAMBDA r : r.S_ID = d.S_ID /\ r.Amine_ID = d.Amine_ID)
    IN  IF hits = <<>> THEN <<Joined(d, NaN, NaN, NaN)>>
        ELSE [k \in 1..Len(hits) |->
                 Joined(d, hits[k].ProductID, hits[k].SMILES, hits[k].Status)]

LeftMerge(dest, prod) ==
    LET Op(acc, d) == acc \o MergeRow(d, prod) IN FoldLeft(Op, <<>>, dest)

\* missing = dfm[dfm["SMILES"].isna()]
MissingRows(m) == SelectSeq(m, LAMBDA r : r.SMILES = NaN)

QcReport(m) ==
    LET missing == MissingRows(m)
    IN  [total |-> Len(m), missing |-> Len(missing),
         rows |-> [k \in 1..Len(missing) |->
                      <<missing[k].Well, missing[k].S_ID, missing[k].Amine_ID>>]]

\* return 1 if n_missing else 0
ExitStatus(n_missing) == IF n_missing # 0 THEN 1 ELSE 0

\* ---- the inputs the model draws from ----
\* A destination row as parse_protocol writes it: a class that reached the
\* well has its number and source well, the other class has empty cells.
DestEntry(w, sn, an) ==
    [Well |-> w, Sulfonyl_chloride_no |-> sn, Amine_no |-> an,
     Sulfonyl_source_well |-> IF sn = <<>> THEN <<>> ELSE W_A2,
     Amine_source_well |-> IF an = <<>> THEN <<>> ELSE W_A1]

DestEntries(w) ==
    {DestEntry(w, sn, an) : sn \in {<<>>, <<"1">>, <<"2">>}, an \in {<<>>, <<"1">>}}
    \ {DestEntry(w, <<>>, <<>>)}

\* destination maps over wells A1 and B1, in column-major order
DestMaps ==
    {<<>>}
    \cup {<<e>> : e \in DestEntries(W_A1) \cup DestEntries(W_B1)}
    \cup {<<e, f>> : e \in DestEntries(W_A1), f \in DestEntries(W_B1)}

ProductKeys == {<<"S_001", "Amine_ID_001">>, <<"S_002", "Amine_ID_001">>,
                <<"S_003", "Amine_ID_001">>}

\* a product table: ProductID is the row's position, keys may repeat
ProductTable(keys) ==
    [k \in 1..Len(keys) |->
        [ProductID |-> ToString(k - 1), S_ID |-> keys[k][1],
         Amine_ID |-> keys[k][2], SMILES |-> "CNS(C)(=O)=O",
         Status |-> "OK_REACTION"]]

NoQc == [total |-> 0, missing |-> 0, rows |-> <<>>]

MergeIdle ==
    /\ df_dest = <<>>
    /\ df_prod = <<>>
    /\ dfm = <<>>
    /\ qc = NoQc
    /\ mg_files = {}
    /\ mg_exc = ""
    /\ mg_ret = 0
    /\ mg_pc = "idle"

MergeStart ==
    /\ df_dest \in DestMaps
    /\ \E len \in 0..MaxProducts : \E ks \in [1..len -> ProductKeys] :
         df_prod = ProductTable(ks)
    /\ dfm = <<>>
    /\ qc = NoQc
    /\ mg_files = {}
    /\ mg_exc = ""
    /\ mg_ret = 0
    /\ mg_pc = "normalize"

\* lines 42-47
MergeNormalize ==
    /\ mg_pc = "normalize"
    /\ IF CastRaises(df_dest)
       THEN /\ mg_exc' = "ValueError"
            /\ mg_pc' = "raised"
            /\ UNCHANGED df_dest
       ELSE /\ df_dest' = [k \in 1..Len(df_dest) |-> WithIds(df_dest[k])]
            /\ mg_pc' = "merge"
            /\ UNCHANGED mg_exc
    /\ UNCHANGED <<df_prod, dfm, qc, mg_files, mg_ret, pa_vars, en_vars, an_vars>>

\* lines 49-66
MergeJoin ==
    /\ mg_pc = "merge"
    /\ dfm' = LeftMerge(df_dest, df_prod)
    /\ mg_pc' = "qc"
    /\ UNCHANGED <<df_dest, df_prod, qc, mg_files, mg_exc, mg_ret,
                   pa_vars, en_vars, an_vars>>

\* lines 68-79
MergeQC ==
    /\ mg_pc = "qc"
    /\ qc' = QcReport(dfm)
    /\ mg_pc' = "write"
    /\ UNCHANGED <<df_dest, df_prod, dfm, mg_files, mg_exc, mg_ret,
                   pa_vars, en_vars, an_vars>>

\* lines 81-89
MergeWrite ==
    /\ mg_pc = "write"
    /\ mg_files' = {"out", "qc"}
    /\ mg_ret' = ExitStatus(qc.missing)
    /\ mg_pc' = "done"
    /\ UNCHANGED <<df_dest, df_prod, dfm, qc, mg_exc, pa_vars, en_vars, an_vars>>

MergeNext == MergeNormalize \/ MergeJoin \/ MergeQC \/ MergeWrite

(***************************************************************************)
(* The tools run one after the other: the analyzer's destination CSV is    *)
(* the merger's --dest-map                                                 *)
(***************************************************************************)
\* product tables for the reagents of the scripts: none, the pair of
\* sulfonyl chloride 1 with amine 2, and that of sulfonyl chloride 7 as well
PipeProductKeys ==
    {<<>>,
     << <<"S_001", "Amine_ID_002">> >>,
     << <<"S_001", "Amine_ID_002">>, <<"S_007", "Amine_ID_002">> >>}

\* merger main, lines 42-43: pd.read_csv of the file the analyzer wrote and
\* of a product table
PipeMergeStart ==
    /\ an_pc = "done"
    /\ mg_pc = "idle"
    /\ df_dest' = files[1].rows
    /\ \E ks \in PipeProductKeys : df_prod' = ProductTable(ks)
    /\ mg_pc' = "normalize"
    /\ UNCHANGED <<dfm, qc, mg_files, mg_exc, mg_ret, pa_vars, en_vars, an_vars>>

PipeNext == AnNext \/ PipeMergeStart \/ MergeNext

(***************************************************************************)
(* Specifications, one per program                                         *)
(***************************************************************************)
InitPlate == PlateStart /\ EnumIdle /\ AnIdle /\ MergeIdle

SpecPlate == InitPlate /\ [][PlateNext]_vars

InitEnum == EnumStart /\ PlateIdle /\ AnIdle /\ MergeIdle

SpecEnum == InitEnum /\ [][EnumNext]_vars

InitMain == MainStart /\ PlateIdle /\ AnIdle /\ MergeIdle

SpecMain == InitMain /\ [][MainNext]_vars

InitAnalyzer == AnStart /\ PlateIdle /\ EnumIdle /\ MergeIdle

SpecAnalyzer == InitAnalyzer /\ [][AnNext]_vars

InitMerge == MergeStart /\ PlateIdle /\ EnumIdle /\ AnIdle

SpecMerge == InitMerge /\ [][MergeNext]_vars

InitPipeline == AnStart /\ MergeIdle /\ PlateIdle /\ EnumIdle

SpecPipeline == InitPipeline /\ [][PipeNext]_vars

(***************************************************************************)
(* Properties                                                              *)
(***************************************************************************)

\* C1: for sulfonyl and amine lists of sizes N and M, enumerate_one_step
\* yields exactly N*M tuples; the k-th (from 0) has ProductID k and pairs
\* sulfonyls[k div M] with amines[k mod M].
C1_YieldsAllPairs ==
    en_pc \in {"done", "raised"} =>
        /\ Len(yielded) = Len(sulfonyls) * Len(amines)
        /\ \A k \in 1..Len(yielded) :
             /\ yielded[k].ProductID = k - 1
             /\ yielded[k].s = sulfonyls[((k - 1) \div Len(amines)) + 1]
             /\ yielded[k].a = amines[((k - 1) % Len(amines)) + 1]

\* C2: record i of plate_assign_96(n) has Plate = i div 96 + 1,
\* Col = (i mod 96) div 8 + 1, Row = the letter at (i mod 96) mod 8 of A..H
\* and Well = Row followed by Col without zero padding; n records in all.
C2_PlateFormula ==
    /\ pa_pc = "done" => Len(recs) = n
    /\ \A k \in 1..Len(recs) :
         LET r == recs[k]
         IN  /\ r.Plate = ((k - 1) \div 96) + 1
             /\ r.Col = (((k - 1) % 96) \div 8) + 1
             /\ r.Row = <<"A", "B", "C", "D", "E", "F", "G", "H">>[(((k - 1) % 96) % 8) + 1]
             /\ Head(r.Well) = r.Row
             /\ Len(r.Well) = (IF r.Col < 10 THEN 2 ELSE 3)
             /\ r.Well[2] # "0"
             /\ AllDigits(Tail(r.Well))
             /\ StrToInt(Tail(r.Well)) = r.Col

\* a run past the first plate: index 95 is H12 of plate 1, index 96 is A1 of
\* plate 2
C2_SecondPlateReached ==
    /\ pa_pc = "done"
    /\ Len(recs) > 96
    /\ recs[96].Well = <<"H", "1", "2">>
    /\ recs[97].Plate = 2
    /\ recs[97].Well = <<"A", "1">>

C3_rowIndex(row) ==
    CHOOSE r \in 0..7 : <<"A", "B", "C", "D", "E", "F", "G", "H">>[r + 1] = row

C3_indexOf(r) == (r.Plate - 1) * 96 + (r.Col - 1) * 8 + C3_rowIndex(r.Row)

\* C3: the index-to-coordinate mapping is one-to-one, (Plate, Well) included,
\* onto the coordinates of the plates filled so far, and
\* (Plate-1)*96 + (Col-1)*8 + rowIndex recovers the index.
C3_Bijection ==
    /\ \A k \in 1..Len(recs) : C3_indexOf(recs[k]) = k - 1
    /\ \A j, k \in 1..Len(recs) :
         j # k => /\ <<recs[j].Plate, recs[j].Well>> # <<recs[k].Plate, recs[k].Well>>
                  /\ <<recs[j].Plate, recs[j].Row, recs[j].Col>>
                       # <<recs[k].Plate, recs[k].Row, recs[k].Col>>
    /\ \A k \in 1..Len(recs) :
         /\ recs[k].Plate \in 1..((Len(recs) + 95) \div 96)
         /\ recs[k].Col \in 1..12
         /\ recs[k].Row \in {"A", "B", "C", "D", "E", "F", "G", "H"}
    /\ Len(recs) % 96 = 0 =>
         {<<recs[k].Plate, recs[k].Row, recs[k].Col>> : k \in 1..Len(recs)}
           = (1..(Len(recs) \div 96)) \X {"A", "B", "C", "D", "E", "F", "G", "H"} \X (1..12)

\* two indices with the same well label, on different plates
C3_SameWellOnTwoPlates ==
    /\ pa_pc = "done"
    /\ Len(recs) >= 98
    /\ recs[2].Well = recs[98].Well
    /\ recs[2].Plate # recs[98].Plate

\* C4: for every pair, malformed reactants included, the enumeration step
\* never raises and the product's status is OK_REACTION or
\* FALLBACK_COMBINEMOLS.
C4_NoFailureMode ==
    /\ en_pc # "raised"
    /\ \A k \in 1..Len(yielded) :
         yielded[k].status \in {"OK_REACTION", "FALLBACK_COMBINEMOLS"}

(***************************************************************************)
(* The script as its text reads, for the properties of the analyzer        *)
(***************************************************************************)
Range(s) == {s[k] : k \in 1..Len(s)}

RemoveAt(s, k) == SubSeq(s, 1, k - 1) \o SubSeq(s, k + 1, Len(s))

IsRunFunction(node) ==
    node.type \in {"FunctionDef", "AsyncFunctionDef"} /\ node.name = <<"r", "u", "n">>

HasRunFunction == \E k \in 1..Len(tree) : IsRunFunction(tree[k])

RunIndex == CHOOSE k \in 1..Len(tree) : tree[k].type = "FunctionDef" /\ tree[k].name = <<"r", "u", "n">>

ScriptBody == tree[RunIndex].body

TreeWithout(k) == [tree EXCEPT ![RunIndex].body = RemoveAt(@, k)]

NameRecognized(name) ==
    ReMatch(AMINE_WORD, name) # <<>> \/ ReMatch(SULF_WORD, name) # <<>>

\* some define_liquid statement gives var a display name of a known pattern
HasBinding(B, var) ==
    \E k \in 1..Len(B) :
        B[k].kind = "define" /\ B[k].var = var /\ NameRecognized(B[k].name)

HasLoad(B, well) == \E k \in 1..Len(B) : B[k].kind = "load" /\ B[k].well = well

LoadedVars(B, well) == {B[k].var : k \in {j \in 1..Len(B) : B[j].kind = "load" /\ B[j].well = well}}

\* the transfer's source well has no load, or nothing loaded there has a
\* recognized binding
Unresolvable(B, well) ==
    ~HasLoad(B, well) \/ \A v \in LoadedVars(B, well) : ~HasBinding(B, v)

\* the destination list a transfer statement names, as of its place in the text
ListInEffect(B, k) ==
    IF B[k].kind = "transfer_lit" THEN B[k].wells
    ELSE LET prior == {j \in 1..(k - 1) : B[j].kind = "destlist" /\ B[j].var = B[k].var}
         IN  IF prior = {} THEN <<>>
             ELSE B[CHOOSE j \in prior : \A h \in prior : h <= j].wells

TransferIndexes(B) == {k \in 1..Len(B) : IsTransfer(B[k])}

PlainLabel(w) ==
    /\ Len(w) >= 2
    /\ w[1] \in {"A", "B", "C", "D", "E", "F", "G", "H"}
    /\ AllDigits(Tail(w))

\* C5's scripts: every transfer's source well has a load, every loaded
\* variable a recognized binding, every named list is assigned before the
\* transfer that names it, and the labels are those of a 96-well plate
WellFormedScript(B) ==
    /\ \A k \in TransferIndexes(B) :
         /\ HasLoad(B, B[k].well)
         /\ ListInEffect(B, k) # <<>>
         /\ \A w \in Range(ListInEffect(B, k)) : PlainLabel(w)
    /\ \A k \in 1..Len(B) :
         /\ B[k].kind = "load" => HasBinding(B, B[k].var)
         /\ B[k].kind = "destlist" => \A w \in Range(B[k].wells) : PlainLabel(w)

DefinesOf(B, var) == {k \in 1..Len(B) : B[k].kind = "define" /\ B[k].var = var}

LoadsOf(B, well) == {k \in 1..Len(B) : B[k].kind = "load" /\ B[k].well = well}

\* the class and number of the reagent in a source well, where the text
\* leaves no choice: one load of the well, one definition of its variable
ReagentOf(B, well) ==
    LET l == CHOOSE k \in LoadsOf(B, well) : TRUE
        d == CHOOSE k \in DefinesOf(B, B[l].var) : TRUE
        mA == ReMatch(AMINE_WORD, B[d].name)
        mS == ReMatch(SULF_WORD, B[d].name)
    IN  IF mA # <<>> THEN [class |-> "amine", num |-> StrToInt(mA)]
        ELSE [class |-> "sulfonyl", num |-> StrToInt(mS)]

Unambiguous(B, well) ==
    /\ Cardinality(LoadsOf(B, well)) = 1
    /\ \A k \in LoadsOf(B, well) : Cardinality(DefinesOf(B, B[k].var)) = 1

RowOfWell(rows, w) == rows[CHOOSE k \in 1..Len(rows) : rows[k].Well = w]

\* C5: for a well-formed script the destination map has exactly the wells of
\* the destination lists in effect at the transfers, and each well carries
\* the number and source well of the reagent of each class transferred to it.
C5_WellsAreThoseInEffect ==
    (an_pc \in {"done", "raised"} /\ HasRunFunction /\ FindRun(tree) # 0
        /\ WellFormedScript(ScriptBody)) =>
        LET B == ScriptBody
        IN  /\ an_pc = "done"
            /\ {dest_rows[k].Well : k \in 1..Len(dest_rows)}
                 = UNION {Range(ListInEffect(B, k)) : k \in TransferIndexes(B)}
            /\ \A k \in TransferIndexes(B) : \A w \in Range(ListInEffect(B, k)) :
                 (/\ Unambiguous(B, B[k].well)
                  /\ \A j \in TransferIndexes(B) \ {k} :
                        w \in Range(ListInEffect(B, j)) =>
                            /\ Unambiguous(B, B[j].well)
                            /\ ReagentOf(B, B[j].well).class # ReagentOf(B, B[k].well).class)
                 => LET r == RowOfWell(dest_rows, w)
                        g == ReagentOf(B, B[k].well)
                    IN  IF g.class = "sulfonyl"
                        THEN /\ r.Sulfonyl_chloride_no = IntToStr(g.num)
                             /\ r.Sulfonyl_source_well = B[k].well
                        ELSE /\ r.Amine_no = IntToStr(g.num)
                             /\ r.Amine_source_well = B[k].well

\* C6: the merged output has each destination well exactly once: as many
\* rows as the destination map, whatever the product table holds.
C6_OneRowPerWell ==
    mg_pc = "done" =>
        /\ Len(dfm) = Len(df_dest)
        /\ \A k \in 1..Len(df_dest) :
             Cardinality({j \in 1..Len(dfm) : dfm[j].Well = df_dest[k].Well}) = 1

HasProduct(d) ==
    \E k \in 1..Len(df_prod) :
        df_prod[k].S_ID = d.S_ID /\ df_prod[k].Amine_ID = d.Amine_ID

UnmatchedWells == SelectSeq(df_dest, LAMBDA d : ~HasProduct(d))

\* C7: the status is 1 exactly when some destination well has no product of
\* its (S_ID, Amine_ID) key and 0 otherwise; the report's total is the number
\* of destination wells, its missing count the number of wells without a
\* product, each listed with its well and keys.
C7_StatusAndReport ==
    mg_pc = "done" =>
        /\ mg_ret = (IF UnmatchedWells # <<>> THEN 1 ELSE 0)
        /\ qc.total = Len(df_dest)
        /\ qc.missing = Len(UnmatchedWells)
        /\ qc.rows = [k \in 1..Len(UnmatchedWells) |->
                         <<UnmatchedWells[k].Well, UnmatchedWells[k].S_ID,
                           UnmatchedWells[k].Amine_ID>>]

\* C8: the merge never throws: it runs to completion, writes the merged
\* output and the report, and ends with status 0 or 1.
C8_MergeNeverThrows ==
    /\ mg_pc # "raised"
    /\ mg_exc = ""
    /\ mg_pc = "done" => mg_files = {"out", "qc"} /\ mg_ret \in {0, 1}

\* C9: without a top-level function named run, parse_protocol fails with
\* ValueError and main writes no file.
C9_NoRunIsFatal ==
    ~HasRunFunction =>
        /\ an_pc \in {"find_run", "raised"}
        /\ an_pc = "raised" => an_exc = "ValueError"
        /\ files = <<>>
        /\ dest_rows = <<>>

\* a script whose only function has another name, after the call failed
C9_FailedWithoutRun ==
    /\ ~HasRunFunction
    /\ \E k \in 1..Len(tree) : tree[k].type = "FunctionDef" /\ tree[k].body # <<>>
    /\ an_pc = "raised"

UnresolvableTransfers(B) ==
    {k \in TransferIndexes(B) : Unresolvable(B, B[k].well)}

\* wells that only unresolvable transfers have among their destinations
OnlyUnresolvedWells(B) ==
    {w \in UNION {Range(transfers[k].dest_wells) : k \in 1..Len(transfers)} :
        \A k \in 1..Len(transfers) :
            w \in Range(transfers[k].dest_wells) => Unresolvable(B, transfers[k].src_well)}

\* C10: a transfer whose source well has no load, or whose loaded variable
\* has no recognized binding, is excluded without raising: its wells get no
\* entry unless another transfer reaches them, and the map, the rows and the
\* outcome are those of the script without that transfer.
C10_UnresolvedTransferExcluded ==
    (FindRun(tree) # 0 /\ HasRunFunction) =>
        LET B == ScriptBody
        IN  /\ an_pc \in {"rows", "write", "done"} =>
                 /\ \A w \in OnlyUnresolvedWells(B) : ~DictHas(dest_map, w)
                 /\ \A k \in UnresolvableTransfers(B) :
                      LET C == RemoveAt(B, k)
                      IN  dest_map = DestMap(Transfers(C, DestLists(C)),
                                             SourceWellMap(C), ReagentVars(C))
            /\ an_pc = "done" =>
                 \A k \in UnresolvableTransfers(B) :
                     /\ ParseProtocol(TreeWithout(k)).exc = ""
                     /\ ParseProtocol(TreeWithout(k)).dest_rows = dest_rows
                     /\ files[1].rows = dest_rows
            /\ an_pc = "raised" =>
                 \A k \in UnresolvableTransfers(B) :
                     ParseProtocol(TreeWithout(k)).exc = an_exc

\* a finished run in which a transfer from a well loaded with the liquid
\* named "Buffer 3" was excluded, its well got no entry, and a resolved
\* transfer wrote its own wells
C10_ExcludedBesideResolved ==
    /\ an_pc = "done"
    /\ FindRun(tree) # 0
    /\ \E k \in UnresolvableTransfers(ScriptBody) :
         /\ HasLoad(ScriptBody, ScriptBody[k].well)
         /\ Range(ScriptBody[k].wells) \cap OnlyUnresolvedWells(ScriptBody) # {}
    /\ dest_rows # <<>>

\* the place of a well's row letter on a plate of any height: A, B, ..., Z
C11_RowOrder(w) == CHOOSE r \in 1..Len(Uppers) : Uppers[r] = Upper(w[1])

\* column-major: by column number, then by row letter
C11_Before(v, w) ==
    \/ StrToInt(Tail(v)) < StrToInt(Tail(w))
    \/ StrToInt(Tail(v)) = StrToInt(Tail(w)) /\ C11_RowOrder(v) < C11_RowOrder(w)

\* C11: once the fold is done, parse_protocol returns the entries of the
\* destination map sorted column-major (column ascending, then row letter
\* ascending), whatever the order of the text, and does so for every
\* destination label, rows beyond H included.
C11_ColumnMajorOrder ==
    (FindRun(tree) # 0 /\ an_pc \in {"write", "done", "raised"}) =>
        /\ an_pc # "raised"
        /\ an_exc = ""
        /\ Len(dest_rows) = Len(dest_map)
        /\ {dest_rows[k] : k \in 1..Len(dest_rows)}
             = {dest_map[k].val : k \in 1..Len(dest_map)}
        /\ \A j, k \in 1..Len(dest_rows) :
             j < k => C11_Before(dest_rows[j].Well, dest_rows[k].Well)

\* the 1-based numbers of the rows of a reagent file that load_reagents_csv
\* keeps, in order
C12_KeptRows(csv) ==
    SelectSeq([k \in 1..Len(csv.rows) |-> k],
              LAMBDA k : ~MolFromSmiles(csv.rows[k].smiles).isNone)

\* C12: the ID the enumerator gives the n-th input reagent is the key the
\* merger renders for reagent number n, s_id(n) for a sulfonyl chloride and
\* amine_id(n) for an amine, whether the ID comes from the file's ID column
\* or is generated from the prefix and the row index; the product records
\* carry those IDs.
C12_SharedKeyConvention ==
    (en_pc \in {"loop", "done"}) =>
        /\ \A k \in 1..Len(sulfonyls) :
             sulfonyls[k].rid = s_id(C12_KeptRows(s_csv)[k])
        /\ \A k \in 1..Len(amines) :
             amines[k].rid = amine_id(C12_KeptRows(a_csv)[k])
        /\ \A k \in 1..Len(products) :
             /\ \E m \in 1..Len(s_csv.rows) : products[k].S_ID = s_id(m)
             /\ \E m \in 1..Len(a_csv.rows) : products[k].Amine_ID = amine_id(m)

\* the fold resolves transfer t: its source well is loaded and the loaded
\* variable is bound
C13_Resolved(t) ==
    /\ DictHas(source_well_map, t.src_well)
    /\ DictHas(reagent_vars, DictGet(source_well_map, t.src_well).liquid_var)

C13_Info(t) == DictGet(reagent_vars, DictGet(source_well_map, t.src_well).liquid_var)

\* the resolved transfers of a class that have well w among their destinations
C13_Hits(w, class) ==
    {k \in 1..Len(transfers) :
        /\ C13_Resolved(transfers[k])
        /\ C13_Info(transfers[k]).class = class
        /\ w \in Range(transfers[k].dest_wells)}

C13_First(w, class) == CHOOSE k \in C13_Hits(w, class) : \A j \in C13_Hits(w, class) : k <= j

\* C13: after the fold, the fields of a class on a well's entry are those of
\* the first resolved transfer of that class to the well: a later transfer
\* of the same class is flagged (the run fails), never written over them.
C13_NoSilentOverwrite ==
    (an_pc \in {"rows", "write", "done"}) =>
        \A e \in 1..Len(dest_map) :
            LET w == dest_map[e].key
                rec == dest_map[e].val
            IN  /\ C13_Hits(w, "sulfonyl") # {} =>
                     LET t == transfers[C13_First(w, "sulfonyl")]
                     IN  /\ rec.Sulfonyl_chloride_no = IntToStr(C13_Info(t).num)
                         /\ rec.Sulfonyl_source_well = t.src_well
                /\ C13_Hits(w, "amine") # {} =>
                     LET t == transfers[C13_First(w, "amine")]
                     IN  /\ rec.Amine_no = IntToStr(C13_Info(t).num)
                         /\ rec.Amine_source_well = t.src_well

\* the destination map after the first k transfers
C14_MapAfter(k) == DestMap(SubSeq(transfers, 1, k), source_well_map, reagent_vars)

C14_EntryOf(dm, w) == IF DictHas(dm, w) THEN DictGet(dm, w) ELSE NewEntry(w)

\* C14: the folded map has one entry per destination well of a resolved
\* transfer; an entry has the number and source well of each class that
\* reached the well, whichever class came first, and empty cells for a class
\* that did not; a transfer changes only its own class's fields, and only
\* on its own destination wells.
C14_OneEntryBothClasses ==
    (an_pc \in {"rows", "write", "done"}) =>
        /\ \A j, k \in 1..Len(dest_map) : dest_map[j].key = dest_map[k].key => j = k
        /\ {dest_map[k].key : k \in 1..Len(dest_map)}
             = UNION {Range(transfers[k].dest_wells) :
                        k \in {j \in 1..Len(transfers) : C13_Resolved(transfers[j])}}
        /\ \A e \in 1..Len(dest_map) :
             LET w == dest_map[e].key
                 rec == dest_map[e].val
             IN  /\ rec.Well = w
                 /\ (C13_Hits(w, "sulfonyl") # {}) <=>
                        (rec.Sulfonyl_chloride_no # <<>> /\ rec.Sulfonyl_source_well # <<>>)
                 /\ (C13_Hits(w, "sulfonyl") = {}) <=>
                        (rec.Sulfonyl_chloride_no = <<>> /\ rec.Sulfonyl_source_well = <<>>)
                 /\ (C13_Hits(w, "amine") # {}) <=>
                        (rec.Amine_no # <<>> /\ rec.Amine_source_well # <<>>)
                 /\ (C13_Hits(w, "amine") = {}) <=>
                        (rec.Amine_no = <<>> /\ rec.Amine_source_well = <<>>)
        /\ \A k \in 1..Len(transfers) :
             LET before == C14_MapAfter(k - 1)
                 after == C14_MapAfter(k)
                 t == transfers[k]
             IN  \A e \in 1..Len(after) :
                    LET w == after[e].key
                        old == C14_EntryOf(before, w)
                        new == after[e].val
                    IN  /\ (w \notin Range(t.dest_wells)) => (DictHas(before, w) /\ new = old)
                        /\ (C13_Resolved(t) /\ C13_Info(t).class = "sulfonyl") =>
                              /\ new.Amine_no = old.Amine_no
                              /\ new.Amine_source_well = old.Amine_source_well
                        /\ (C13_Resolved(t) /\ C13_Info(t).class = "amine") =>
                              /\ new.Sulfonyl_chloride_no = old.Sulfonyl_chloride_no
                              /\ new.Sulfonyl_source_well = old.Sulfonyl_source_well

\* a finished run with a well that an amine transfer reached first and a
\* sulfonyl transfer after it, both on its one row
C14_AmineThenSulfonyl ==
    /\ an_pc = "done"
    /\ \E e \in 1..Len(dest_rows) :
         LET w == dest_rows[e].Well
         IN  /\ C13_Hits(w, "sulfonyl") # {}
             /\ C13_Hits(w, "amine") # {}
             /\ C13_First(w, "amine") < C13_First(w, "sulfonyl")
             /\ dest_rows[e].Amine_no # <<>>
             /\ dest_rows[e].Sulfonyl_chloride_no # <<>>

\* what the oracle returned for a yielded pair: its candidate sets, none if
\* it raised
C15_Sets(t) ==
    LET r == RunReactants(MolFromSmiles(t.s.smiles), MolFromSmiles(t.a.smiles))
    IN  IF r.raised THEN <<>> ELSE r.sets

\* the positions (set, place in the set) of the candidates that pass validation
C15_Valid(sets) ==
    {pq \in (1..Len(sets)) \X (1..2) : pq[2] <= Len(sets[pq[1]]) /\ sets[pq[1]][pq[2]].sane}

C15_Earlier(pq, rs) == pq[1] < rs[1] \/ (pq[1] = rs[1] /\ pq[2] <= rs[2])

\* C15: every yielded product is the first candidate, in the oracle's order
\* of sets and of candidates within a set, that passes validation, with
\* status OK_REACTION; where no candidate passes, it is the two reactants
\* side by side with status FALLBACK_COMBINEMOLS.
C15_FirstValidCandidate ==
    \A k \in 1..Len(yielded) :
        LET t == yielded[k]
            sets == C15_Sets(t)
            valid == C15_Valid(sets)
        IN  /\ (t.status = "OK_REACTION") <=> (valid # {})
            /\ valid # {} =>
                 LET first == CHOOSE pq \in valid : \A rs \in valid : C15_Earlier(pq, rs)
                 IN  t.smiles = sets[first[1]][first[2]].smi
            /\ valid = {} =>
                 /\ t.status = "FALLBACK_COMBINEMOLS"
                 /\ t.smiles = t.s.smiles \o "." \o t.a.smiles

\* a finished enumeration with a pair that had two valid candidates, a pair
\* whose only valid candidate came after a rejected one, and a fallback
C15_SeveralCandidates ==
    /\ en_pc = "done"
    /\ \E k \in 1..Len(yielded) : Cardinality(C15_Valid(C15_Sets(yielded[k]))) = 2
    /\ \E k \in 1..Len(yielded) :
         /\ yielded[k].status = "OK_REACTION"
         /\ <<1, 1>> \notin C15_Valid(C15_Sets(yielded[k]))
    /\ \E k \in 1..Len(yielded) : yielded[k].status = "FALLBACK_COMBINEMOLS"

\* the transfer statements of the text that have destinations, in order
C16_TransferStmts(B) ==
    SelectSeq([k \in 1..Len(B) |-> k],
              LAMBDA k : IsTransfer(B[k]) /\ ListInEffect(B, k) # <<>>)

\* a transfer statement with the destination list captured before it
C16_Transfer(B, k) == [src_well |-> B[k].well, dest_wells |-> ListInEffect(B, k)]

\* the fold in which each transfer is resolved through the loads and the
\* bindings that precede it in the text
C16_FoldInTextOrder(B) ==
    LET Op(dm, k) ==
            FoldTransfer(dm, C16_Transfer(B, k),
                         SourceWellMap(SubSeq(B, 1, k - 1)),
                         ReagentVars(SubSeq(B, 1, k - 1)))
    IN  FoldLeft(Op, <<>>, C16_TransferStmts(B))

\* C16: each transfer is resolved against what the text captured before it:
\* its destinations are those of the list last assigned to the named
\* variable above the transfer, and its reagent is found through the load
\* and the binding above it; what is assigned, loaded or bound below the
\* transfer plays no part.
C16_ResolvedAgainstEarlier ==
    (FindRun(tree) # 0 /\ an_pc \in {"rows", "write", "done"}) =>
        LET B == ScriptBody
            stmts == C16_TransferStmts(B)
        IN  /\ transfers = [j \in 1..Len(stmts) |-> C16_Transfer(B, stmts[j])]
            /\ dest_map = C16_FoldInTextOrder(B)

\* the destination wells of the transfers the fold skipped
C17_ExcludedWells ==
    UNION {Range(transfers[k].dest_wells) :
             k \in {j \in 1..Len(transfers) : ~C13_Resolved(transfers[j])}}

\* C17: when the analyzer and then the merger have run, on a destination
\* map and a product table that both have rows, every destination
\* well of a transfer the analyzer excluded is listed among the missing rows
\* of the QC report and the merger's status is 1.
C17_ExcludedWellsReported ==
    (an_pc = "done" /\ mg_pc = "done" /\ df_dest # <<>> /\ df_prod # <<>>) =>
        \A w \in C17_ExcludedWells :
            /\ \E k \in 1..Len(qc.rows) : qc.rows[k][1] = w
            /\ mg_ret = 1

\* the coordinate of index p on plates of n_rows x n_cols wells, filled
\* column by column
C18_Coordinate(p) ==
    LET cap == n_rows * n_cols
        row == row_labels_96[((p % cap) % n_rows) + 1]
        col == ((p % cap) \div n_rows) + 1
    IN  [Plate |-> (p \div cap) + 1, Row |-> row, Col |-> col,
         Well |-> <<row>> \o IntToStr(col)]

\* C18: the plate map main writes has one row per product, in ProductID
\* order 0, 1, 2, ...; the row of product p has the coordinate of index p
\* and the product's own SMILES and reagent IDs, whatever its status.
C18_PlateMapByProductID ==
    (en_pc = "done" /\ en_ret = 0) =>
        /\ Len(plate_map) = Len(products)
        /\ Len(products) = Len(sulfonyls) * Len(amines)
        /\ \A k \in 1..Len(plate_map) :
             LET r == plate_map[k]
                 c == C18_Coordinate(r.ProductID)
             IN  /\ r.ProductID = k - 1
                 /\ products[k].ProductID = r.ProductID
                 /\ r.Plate = c.Plate /\ r.Row = c.Row /\ r.Col = c.Col
                 /\ r.Well = c.Well
                 /\ r.ProductSMILES = products[k].SMILES
                 /\ r.S_ID = products[k].S_ID
                 /\ r.Amine_ID = products[k].Amine_ID

\* a written plate map that runs onto a second plate, with products of both
\* outcomes on it
C18_SecondPlateMixedOutcomes ==
    /\ en_pc = "done"
    /\ en_ret = 0
    /\ \E k \in 1..Len(plate_map) : plate_map[k].Plate = 2
    /\ \E j, k \in 1..Len(products) :
         /\ products[j].Status = "OK_REACTION"
         /\ products[k].Status = "FALLBACK_COMBINEMOLS"

=============================================================================
